---- MODULE Spec2Model ----
(***************************************************************************)
(* A model of piston_rs: the Executor builder (src/src/executor.rs), the   *)
(* result predicates of ExecResult / ExecResponse, and the two network     *)
(* operations of Client (src/src/client.rs).                               *)
(*                                                                         *)
(* Strings that the code only copies are atomic TLA+ strings.  The         *)
(* language of an Executor is a sequence of characters, because            *)
(* set_language rewrites it character by character (to_lowercase).         *)
(***************************************************************************)
EXTENDS Integers, Sequences, FiniteSets, TLC

VARIABLES
    executor,   \* the Executor value being configured / submitted
    last,       \* name of the most recent Executor method applied ("new" at first)
    key,        \* the Option<&str> the Client constructor was called with
    client,     \* the Client (url, headers), or the record of a panicked constructor
    calls,      \* one record per call of Client::execute / Client::fetch_runtimes
    wire,       \* per call, the HTTP requests that call has put on the network
    disk,         \* the local filesystem: what each path leads to
    load        \* the call of File::load_from / File::load_content_from under way

builderVars == <<executor, last>>
clientVars == <<key, client, calls, wire>>
fileVars == <<disk, load>>
vars == <<executor, last, key, client, calls, wire, disk, load>>

-----------------------------------------------------------------------------
(* Bounds of the model *)

\* Most items (files plus args) an Executor holds in the model.
MaxItems == 2
\* Longest batch handed to add_files / set_files / add_args / set_args.
MaxBatch == 2
\* Number of Client calls made in one behaviour.
MaxCalls == 2

-----------------------------------------------------------------------------
(* Option and Result *)

None == [some |-> FALSE]
Some(x) == [some |-> TRUE, val |-> x]
Ok(x) == [ok |-> TRUE, val |-> x]
Err(e) == [ok |-> FALSE, err |-> e]

SeqsUpTo(S, n) == UNION {[1..k -> S] : k \in 0..n}

RECURSIVE Flatten(_)
Flatten(ss) == IF ss = <<>> THEN <<>> ELSE Head(ss) \o Flatten(Tail(ss))

-----------------------------------------------------------------------------
(* File (src/src/lib.rs) *)

File_default == [name |-> "", content |-> "", encoding |-> "utf8"]

File_new(name, content, encoding) ==
    [name |-> name, content |-> content, encoding |-> encoding]

File_set_name(f, name) == [f EXCEPT !.name = name]

File_set_content(f, content) == [f EXCEPT !.content = content]

File_set_encoding(f, encoding) == [f EXCEPT !.encoding = encoding]

-----------------------------------------------------------------------------
(* Executor (src/src/executor.rs) *)

\* char::to_lowercase of one character, as the sequence of characters it yields.
\* "U+0130" (capital I with dot above) expands to two characters; "U+1D400"
\* (mathematical bold capital A) has no lower-case mapping and stays as it is.
LowerChar(c) ==
    CASE c = "R" -> <<"r">>
      [] c = "C" -> <<"c">>
      [] c = "U+0130" -> <<"i", "U+0307">>
      [] OTHER -> <<c>>

\* str::to_lowercase: every character replaced by its lower-case expansion.
to_lowercase(s) == Flatten([i \in 1..Len(s) |-> LowerChar(s[i])])

\* Mutant: the two timeouts' defaults exchanged.
Executor_new_timeouts_swapped ==
    [language |-> <<>>,
     version |-> "*",
     files |-> <<>>,
     stdin |-> "",
     args |-> <<>>,
     compile_timeout |-> 3000,
     run_timeout |-> 10000,
     compile_memory_limit |-> -1,
     run_memory_limit |-> -1]

Executor_new ==
    [language |-> <<>>,
     version |-> "*",
     files |-> <<>>,
     stdin |-> "",
     args |-> <<>>,
     compile_timeout |-> 10000,
     run_timeout |-> 3000,
     compile_memory_limit |-> -1,
     run_memory_limit |-> -1]

Executor_default == Executor_new

\* Mutant: a reset that forgets stdin and the memory limits.
Executor_reset_partial(e) ==
    [e EXCEPT !.language = <<>>,
              !.version = "*",
              !.files = <<>>,
              !.args = <<>>,
              !.compile_timeout = 10000,
              !.run_timeout = 3000]

Executor_reset(e) ==
    [e EXCEPT !.language = <<>>,
              !.version = "*",
              !.files = <<>>,
              !.stdin = "",
              !.args = <<>>,
              !.compile_timeout = 10000,
              !.run_timeout = 3000,
              !.compile_memory_limit = -1,
              !.run_memory_limit = -1]

\* Mutant: the language is stored as given.
Executor_set_language_verbatim(e, language) == [e EXCEPT !.language = language]

Executor_set_language(e, language) == [e EXCEPT !.language = to_lowercase(language)]

Executor_set_version(e, version) == [e EXCEPT !.version = version]

\* Mutant: the new file goes in front of the files held.
Executor_add_file_front(e, file) == [e EXCEPT !.files = <<file>> \o @]

Executor_add_file(e, file) == [e EXCEPT !.files = Append(@, file)]

Executor_add_files(e, files) == [e EXCEPT !.files = @ \o files]

\* Mutant: set_files keeps the files held and adds the new ones.
Executor_set_files_extend(e, files) == [e EXCEPT !.files = @ \o files]

Executor_set_files(e, files) == [e EXCEPT !.files = files]

Executor_set_stdin(e, stdin) == [e EXCEPT !.stdin = stdin]

Executor_add_arg(e, arg) == [e EXCEPT !.args = Append(@, arg)]

\* Mutant: add_args drops the args held.
Executor_add_args_replace(e, args) == [e EXCEPT !.args = args]

Executor_add_args(e, args) == [e EXCEPT !.args = @ \o args]

Executor_set_args(e, args) == [e EXCEPT !.args = args]

Executor_set_compile_timeout(e, timeout) == [e EXCEPT !.compile_timeout = timeout]

\* Mutant: a negative run timeout is clamped to zero.
Executor_set_run_timeout_clamped(e, timeout) ==
    [e EXCEPT !.run_timeout = IF timeout < 0 THEN 0 ELSE timeout]

Executor_set_run_timeout(e, timeout) == [e EXCEPT !.run_timeout = timeout]

Executor_set_compile_memory_limit(e, limit) == [e EXCEPT !.compile_memory_limit = limit]

Executor_set_run_memory_limit(e, limit) == [e EXCEPT !.run_memory_limit = limit]

-----------------------------------------------------------------------------
(* Inputs of the builder calls *)

LanguageInputs ==
    {<<"R", "u", "s", "t">>, <<"r", "u", "s", "t">>, <<"C">>, <<"U+0130">>, <<"U+1D400">>}
VersionInputs == {"1.50.0"}
StdinInputs == {"Fearless concurrency"}
ArgInputs == {"--verbose", "-S"}
FileInputs ==
    {File_default,
     File_set_content(File_set_name(File_default, "main.rs"), "fn main() {}")}
CompileTimeoutInputs == {5000}
RunTimeoutInputs == {0}
CompileMemoryLimitInputs == {100000000}
RunMemoryLimitInputs == {-2}

\* The model keeps an Executor within MaxItems files and args.
Fits(e) == Len(e.files) + Len(e.args) <= MaxItems

-----------------------------------------------------------------------------
(* Builder steps: one per Executor method *)

Apply(op, e) ==
    /\ Fits(e)
    /\ executor' = e
    /\ last' = op
    /\ UNCHANGED clientVars
    /\ UNCHANGED fileVars

new == Apply("new", Executor_new)

default == Apply("default", Executor_default)

reset == Apply("reset", Executor_reset(executor))

set_language == \E s \in LanguageInputs : Apply("set_language", Executor_set_language(executor, s))

set_version == \E v \in VersionInputs : Apply("set_version", Executor_set_version(executor, v))

add_file == \E f \in FileInputs : Apply("add_file", Executor_add_file(executor, f))

add_files ==
    \E fs \in SeqsUpTo(FileInputs, MaxBatch) : Apply("add_files", Executor_add_files(executor, fs))

set_files ==
    \E fs \in SeqsUpTo(FileInputs, MaxBatch) : Apply("set_files", Executor_set_files(executor, fs))

set_stdin == \E s \in StdinInputs : Apply("set_stdin", Executor_set_stdin(executor, s))

add_arg == \E a \in ArgInputs : Apply("add_arg", Executor_add_arg(executor, a))

add_args ==
    \E as \in SeqsUpTo(ArgInputs, MaxBatch) : Apply("add_args", Executor_add_args(executor, as))

set_args ==
    \E as \in SeqsUpTo(ArgInputs, MaxBatch) : Apply("set_args", Executor_set_args(executor, as))

set_compile_timeout ==
    \E t \in CompileTimeoutInputs :
        Apply("set_compile_timeout", Executor_set_compile_timeout(executor, t))

set_run_timeout ==
    \E t \in RunTimeoutInputs : Apply("set_run_timeout", Executor_set_run_timeout(executor, t))

set_compile_memory_limit ==
    \E l \in CompileMemoryLimitInputs :
        Apply("set_compile_memory_limit", Executor_set_compile_memory_limit(executor, l))

set_run_memory_limit ==
    \E l \in RunMemoryLimitInputs :
        Apply("set_run_memory_limit", Executor_set_run_memory_limit(executor, l))

-----------------------------------------------------------------------------
(* JSON values, as serde_json reads and writes them *)

JNull == [t |-> "null"]
JStr(s) == [t |-> "str", v |-> s]
JNum(n) == [t |-> "num", v |-> n]
JArr(xs) == [t |-> "arr", v |-> xs]
JObj(o) == [t |-> "obj", v |-> o]
\* What the JSON parser makes of a body that is not JSON.
JInvalid == [t |-> "invalid"]

\* The member k of object o; a missing member reads as null (an Option field).
Field(o, k) == IF k \in DOMAIN o THEN o[k] ELSE JNull

IsStr(j) == j.t = "str"
IsOptStr(j) == j.t \in {"null", "str"}
OptStr(j) == IF j.t = "str" THEN Some(j.v) ELSE None
IsStrArr(j) == j.t = "arr" /\ \A i \in 1..Len(j.v) : IsStr(j.v[i])

\* #[derive(Serialize)] for File: an object with the three fields.
File_to_json(f) ==
    JObj([name |-> JStr(f.name), content |-> JStr(f.content), encoding |-> JStr(f.encoding)])

\* #[derive(Serialize)] for Executor: an object with the nine fields.
Executor_to_json(e) ==
    JObj([language |-> JStr(e.language),
          version |-> JStr(e.version),
          files |-> JArr([i \in 1..Len(e.files) |-> File_to_json(e.files[i])]),
          stdin |-> JStr(e.stdin),
          args |-> JArr([i \in 1..Len(e.args) |-> JStr(e.args[i])]),
          compile_timeout |-> JNum(e.compile_timeout),
          run_timeout |-> JNum(e.run_timeout),
          compile_memory_limit |-> JNum(e.compile_memory_limit),
          run_memory_limit |-> JNum(e.run_memory_limit)])

-----------------------------------------------------------------------------
(* ExecResult and ExecResponse (src/src/executor.rs) *)

\* #[derive(Deserialize)] for ExecResult: does the JSON value have its shape?
ExecResult_de_ok(j) ==
    /\ j.t = "obj"
    /\ {"stdout", "stderr", "output", "code"} \subseteq DOMAIN j.v
    /\ IsStr(j.v.stdout)
    /\ IsStr(j.v.stderr)
    /\ IsStr(j.v.output)
    /\ j.v.code.t = "num"
    /\ IsOptStr(Field(j.v, "signal"))

ExecResult_de(j) ==
    [stdout |-> j.v.stdout.v,
     stderr |-> j.v.stderr.v,
     output |-> j.v.output.v,
     code |-> j.v.code.v,
     signal |-> OptStr(Field(j.v, "signal"))]

\* Mutant: success judged by the output streams, as an earlier revision did.
ExecResult_is_ok_by_output(r) == r.stdout # "" /\ r.stderr = ""

ExecResult_is_ok(r) == r.code = 0

ExecResult_is_err(r) == r.code # 0

\* #[derive(Deserialize)] for ExecResponse, with the optional message field
\* that Client::execute fills in.
ExecResponse_de_ok(j) ==
    /\ j.t = "obj"
    /\ {"language", "version", "run"} \subseteq DOMAIN j.v
    /\ IsStr(j.v.language)
    /\ IsStr(j.v.version)
    /\ ExecResult_de_ok(j.v.run)
    /\ (Field(j.v, "compile").t = "null" \/ ExecResult_de_ok(Field(j.v, "compile")))
    /\ IsOptStr(Field(j.v, "message"))

ExecResponse_de(j) ==
    [language |-> j.v.language.v,
     version |-> j.v.version.v,
     run |-> ExecResult_de(j.v.run),
     compile |-> IF Field(j.v, "compile").t = "null"
                 THEN None
                 ELSE Some(ExecResult_de(j.v.compile)),
     message |-> OptStr(Field(j.v, "message"))]

\* Mutant: the compile result is not consulted.
ExecResponse_is_ok_run_only(r) == ExecResult_is_ok(r.run)

ExecResponse_is_ok(r) ==
    IF r.compile.some
    THEN ExecResult_is_ok(r.compile.val) /\ ExecResult_is_ok(r.run)
    ELSE ExecResult_is_ok(r.run)

ExecResponse_is_err(r) ==
    IF r.compile.some
    THEN ExecResult_is_err(r.compile.val) \/ ExecResult_is_err(r.run)
    ELSE ExecResult_is_err(r.run)

-----------------------------------------------------------------------------
(* Runtime (src/src/lib.rs) *)

Runtime_de_ok(j) ==
    /\ j.t = "obj"
    /\ {"language", "version", "aliases"} \subseteq DOMAIN j.v
    /\ IsStr(j.v.language)
    /\ IsStr(j.v.version)
    /\ IsStrArr(j.v.aliases)

Runtime_de(j) ==
    [language |-> j.v.language.v,
     version |-> j.v.version.v,
     aliases |-> [i \in 1..Len(j.v.aliases.v) |-> j.v.aliases.v[i].v]]

\* Deserialize for Vec<Runtime>.
Runtimes_de_ok(j) == j.t = "arr" /\ \A i \in 1..Len(j.v) : Runtime_de_ok(j.v[i])

Runtimes_de(j) == [i \in 1..Len(j.v) |-> Runtime_de(j.v[i])]

-----------------------------------------------------------------------------
(* Client (src/src/client.rs) *)

\* reqwest::StatusCode::OK
StatusCode_OK == 200

\* Header values HeaderValue::from_str rejects (here: one holding a line break).
InvalidHeaderValues == {"abc\ndef"}

HeaderValue_from_str(s) ==
    IF s \in InvalidHeaderValues THEN Err("InvalidHeaderValue") ELSE Ok(s)

\* HeaderMap::insert
HeaderMap_insert(h, name, value) ==
    [n \in DOMAIN h \cup {name} |-> IF n = name THEN value ELSE h[n]]

\* Mutant: the user agent of the HttpHandler revision (src/src/http.rs).
generate_headers_http_handler(k) ==
    LET h0 == <<>>
        h1 == HeaderMap_insert(h0, "User-Agent", HeaderValue_from_str("piston-rs-client").val)
        h2 == HeaderMap_insert(h1, "Accept", HeaderValue_from_str("application/json").val)
    IN  IF k.some
        THEN IF HeaderValue_from_str(k.val).ok
             THEN Ok(HeaderMap_insert(h2, "Authorization", HeaderValue_from_str(k.val).val))
             ELSE Err("panic")
        ELSE Ok(h2)

\* Ok(headers), or Err when the unwrap of the key's HeaderValue panics.
generate_headers(k) ==
    LET h0 == <<>>
        h1 == HeaderMap_insert(h0, "Accept", HeaderValue_from_str("application/json").val)
        h2 == HeaderMap_insert(h1, "User-Agent", HeaderValue_from_str("piston-rs").val)
    IN  IF k.some
        THEN IF HeaderValue_from_str(k.val).ok
             THEN Ok(HeaderMap_insert(h2, "Authorization", HeaderValue_from_str(k.val).val))
             ELSE Err("panic")
        ELSE Ok(h2)

\* A constructed Client, or the record of a constructor that panicked.
Client_build(url, h) ==
    IF h.ok THEN [ok |-> TRUE, url |-> url, headers |-> h.val] ELSE [ok |-> FALSE]

Client_new == Client_build("https://emkc.org/api/v2/piston", generate_headers(None))

Client_default == Client_new

Client_with_key(k) == Client_build("https://emkc.org/api/v2/piston", generate_headers(Some(k)))

Client_get_url(c) == c.url

Client_get_headers(c) == c.headers

\* Display of reqwest::StatusCode: the number and its canonical reason.
StatusDisplay(status) ==
    CASE status = 200 -> "200 OK"
      [] status = 201 -> "201 Created"
      [] status = 400 -> "400 Bad Request"
      [] status = 429 -> "429 Too Many Requests"
      [] OTHER -> "<unknown status code>"

\* format!("{}: {}", a, b), as the pieces it joins.
Format(a, b) == <<a, ": ", b>>

\* format!("{}/<path>", url)
Endpoint(url, path) == <<url, path>>

\* The request execute builds: POST, the client's headers, the executor as JSON
\* (RequestBuilder::json also sets Content-Type).
ExecuteRequest(c, e) ==
    [method |-> "POST",
     url |-> Endpoint(c.url, "/execute"),
     headers |-> HeaderMap_insert(c.headers, "Content-Type", "application/json"),
     body |-> Some(Executor_to_json(e))]

\* The request fetch_runtimes builds: GET, the client's headers, no body.
RuntimesRequest(c) ==
    [method |-> "GET",
     url |-> Endpoint(c.url, "/runtimes"),
     headers |-> c.headers,
     body |-> None]

\* Mutant: every 2xx status is deserialized (status.is_success()), not only 200.
execute_result_any_2xx(resp) ==
    IF ~resp.sent
    THEN Err("send")
    ELSE IF ~resp.body.readable
         THEN Err("body")
         ELSE IF resp.status \in 200..299
              THEN IF ExecResponse_de_ok(resp.body.json)
                   THEN Ok(ExecResponse_de(resp.body.json))
                   ELSE Err("decode")
              ELSE Ok([language |-> "",
                       version |-> "",
                       run |-> [stdout |-> "", stderr |-> "", output |-> "",
                                code |-> 0, signal |-> None],
                       compile |-> None,
                       message |-> Some(Format(StatusDisplay(resp.status), resp.body.text))])

\* Mutant: a response reporting a failed execution is turned into Err.
execute_result_failure_is_err(resp) ==
    IF ~resp.sent
    THEN Err("send")
    ELSE IF ~resp.body.readable
         THEN Err("body")
         ELSE IF resp.status = StatusCode_OK
              THEN IF ExecResponse_de_ok(resp.body.json)
                   THEN IF ExecResponse_is_err(ExecResponse_de(resp.body.json))
                        THEN Err("execution failed")
                        ELSE Ok(ExecResponse_de(resp.body.json))
                   ELSE Err("decode")
              ELSE Ok([language |-> "",
                       version |-> "",
                       run |-> [stdout |-> "", stderr |-> "", output |-> "",
                                code |-> 0, signal |-> None],
                       compile |-> None,
                       message |-> Some(Format(StatusDisplay(resp.status), resp.body.text))])

\* What Client::execute returns once send() has resolved to resp.
execute_result(resp) ==
    IF ~resp.sent
    THEN Err("send")
    ELSE IF resp.status = StatusCode_OK
         THEN IF ~resp.body.readable
              THEN Err("body")
              ELSE IF ExecResponse_de_ok(resp.body.json)
                   THEN Ok(ExecResponse_de(resp.body.json))
                   ELSE Err("decode")
         ELSE LET exec_result ==
                      [stdout |-> "", stderr |-> "", output |-> "", code |-> 0, signal |-> None]
              IN  IF ~resp.body.readable
                  THEN Err("body")
                  ELSE Ok([language |-> "",
                           version |-> "",
                           run |-> exec_result,
                           compile |-> None,
                           message |-> Some(Format(StatusDisplay(resp.status),
                                                   resp.body.text))])

\* What Client::fetch_runtimes returns once send() has resolved to resp.
fetch_runtimes_result(resp) ==
    IF ~resp.sent
    THEN Err("send")
    ELSE IF ~resp.body.readable
         THEN Err("body")
         ELSE IF Runtimes_de_ok(resp.body.json)
              THEN Ok(Runtimes_de(resp.body.json))
              ELSE Err("decode")

-----------------------------------------------------------------------------
(* The remote service: what a call may get back *)

JResult(stdout, stderr, code, signal) ==
    JObj([stdout |-> JStr(stdout), stderr |-> JStr(stderr), output |-> JStr(stdout),
          code |-> JNum(code), signal |-> signal])

\* A run that succeeded, no compile stage.
BodyRunOk ==
    [readable |-> TRUE,
     text |-> "{run ok}",
     json |-> JObj([language |-> JStr("python"), version |-> JStr("3.10.0"),
                    run |-> JResult("42", "", 0, JNull)])]

\* Compiled, then the run was killed.
BodyRunFailed ==
    [readable |-> TRUE,
     text |-> "{compile ok, run failed}",
     json |-> JObj([language |-> JStr("rust"), version |-> JStr("1.50.0"),
                    run |-> JResult("partial", "killed", 137, JStr("SIGKILL")),
                    compile |-> JResult("", "", 0, JNull)])]

\* The compile stage failed; the run stage reports code 0.
BodyCompileFailed ==
    [readable |-> TRUE,
     text |-> "{compile failed, run ok}",
     json |-> JObj([language |-> JStr("rust"), version |-> JStr("1.50.0"),
                    run |-> JResult("", "", 0, JNull),
                    compile |-> JResult("", "error[E0425]", 1, JNull)])]

\* Piston's error object.
BodyMessage ==
    [readable |-> TRUE,
     text |-> "{message}",
     json |-> JObj([message |-> JStr("rust-9 runtime is unknown")])]

\* A body that is not JSON.
BodyText == [readable |-> TRUE, text |-> "Not Found", json |-> JInvalid]

JRuntime(language, version, aliases) ==
    JObj([language |-> JStr(language), version |-> JStr(version),
          aliases |-> JArr([i \in 1..Len(aliases) |-> JStr(aliases[i])])])

BodyRuntimesTwo ==
    [readable |-> TRUE,
     text |-> "[rust, python]",
     json |-> JArr(<<JRuntime("rust", "1.50.0", <<"rs">>),
                     JRuntime("python", "3.10.0", <<"py", "py3">>)>>)]

BodyRuntimesOne ==
    [readable |-> TRUE,
     text |-> "[python]",
     json |-> JArr(<<JRuntime("python", "3.10.0", <<"py", "py3">>)>>)]

\* The connection broke while the body was read.
BodyUnreadable == [readable |-> FALSE]

\* The bodies the model's service answers with.
Bodies ==
    <<BodyRunOk, BodyRunFailed, BodyCompileFailed, BodyMessage, BodyText,
      BodyRuntimesTwo, BodyRuntimesOne, BodyUnreadable>>

BodyIds == 1..Len(Bodies)

Statuses == {200, 201, 400}

\* send() failed: no response at all.
NoResponse == [sent |-> FALSE]

\* send() resolved to a response with this status, whose body reads as b.
Response(s, b) == [sent |-> TRUE, status |-> s, body |-> b]

-----------------------------------------------------------------------------
(* Client steps *)

Awaiting(i) == i \in 1..Len(calls) /\ calls[i].pc = "awaiting"

\* Mutant: sending consumes the executor, which is left reset.
execute_send_consuming ==
    /\ client.ok
    /\ Len(calls) < MaxCalls
    /\ calls' = Append(calls, [kind |-> "execute", pc |-> "awaiting"])
    /\ wire' = Append(wire, <<ExecuteRequest(client, executor)>>)
    /\ executor' = Executor_reset(executor)
    /\ UNCHANGED <<last, key, client>>
    /\ UNCHANGED fileVars

\* Client::execute up to send().await: the request goes out.
execute_send ==
    /\ client.ok
    /\ Len(calls) < MaxCalls
    /\ calls' = Append(calls, [kind |-> "execute", pc |-> "awaiting"])
    /\ wire' = Append(wire, <<ExecuteRequest(client, executor)>>)
    /\ UNCHANGED <<executor, last, key, client>>
    /\ UNCHANGED fileVars

\* Mutant: a failed round trip is retried instead of returned.
execute_return_retry(i, resp) ==
    /\ Awaiting(i)
    /\ calls[i].kind = "execute"
    /\ IF execute_result(resp).ok
       THEN /\ calls' = [calls EXCEPT ![i] =
                            [kind |-> "execute", pc |-> "done", resp |-> resp,
                             result |-> execute_result(resp)]]
            /\ wire' = wire
       ELSE /\ calls' = calls
            /\ wire' = [wire EXCEPT ![i] = Append(@, ExecuteRequest(client, executor))]
    /\ UNCHANGED <<executor, last, key, client>>
    /\ UNCHANGED fileVars

\* Mutant: the calls share one response slot, filled by the first response.
execute_return_first_response(i, resp) ==
    /\ Awaiting(i)
    /\ calls[i].kind = "execute"
    /\ calls' = [calls EXCEPT ![i] =
                    [kind |-> "execute", pc |-> "done", resp |-> resp,
                     result |-> IF calls[1].pc = "done" /\ calls[1].kind = "execute"
                                THEN execute_result(calls[1].resp)
                                ELSE execute_result(resp)]]
    /\ UNCHANGED <<executor, last, key, client, wire>>
    /\ UNCHANGED fileVars

\* Client::execute from send().await on: the response decides the result.
execute_return(i, resp) ==
    /\ Awaiting(i)
    /\ calls[i].kind = "execute"
    /\ calls' = [calls EXCEPT ![i] =
                    [kind |-> "execute", pc |-> "done", resp |-> resp,
                     result |-> execute_result(resp)]]
    /\ UNCHANGED <<executor, last, key, client, wire>>
    /\ UNCHANGED fileVars

\* Client::fetch_runtimes up to send().await.
fetch_runtimes_send ==
    /\ client.ok
    /\ Len(calls) < MaxCalls
    /\ calls' = Append(calls, [kind |-> "fetch_runtimes", pc |-> "awaiting"])
    /\ wire' = Append(wire, <<RuntimesRequest(client)>>)
    /\ UNCHANGED <<executor, last, key, client>>
    /\ UNCHANGED fileVars

\* The fetch_runtimes calls that have returned Ok.
Fetched == {j \in 1..Len(calls) : /\ calls[j].kind = "fetch_runtimes"
                                  /\ calls[j].pc = "done"
                                  /\ calls[j].result.ok}

\* What a cache of runtimes would hold: the catalog of one fetch that returned.
Cached == IF Fetched = {} THEN <<>> ELSE calls[CHOOSE j \in Fetched : TRUE].result.val

\* Mutant: a fetched catalog is added to a cache of the earlier ones.
fetch_runtimes_return_accumulating(i, resp) ==
    /\ Awaiting(i)
    /\ calls[i].kind = "fetch_runtimes"
    /\ calls' = [calls EXCEPT ![i] =
                    [kind |-> "fetch_runtimes", pc |-> "done", resp |-> resp,
                     result |-> IF fetch_runtimes_result(resp).ok
                                THEN Ok(Cached \o fetch_runtimes_result(resp).val)
                                ELSE fetch_runtimes_result(resp)]]
    /\ UNCHANGED <<executor, last, key, client, wire>>
    /\ UNCHANGED fileVars

\* Client::fetch_runtimes from send().await on.
fetch_runtimes_return(i, resp) ==
    /\ Awaiting(i)
    /\ calls[i].kind = "fetch_runtimes"
    /\ calls' = [calls EXCEPT ![i] =
                    [kind |-> "fetch_runtimes", pc |-> "done", resp |-> resp,
                     result |-> fetch_runtimes_result(resp)]]
    /\ UNCHANGED <<executor, last, key, client, wire>>
    /\ UNCHANGED fileVars

-----------------------------------------------------------------------------
(* Loading a File from disk (src/src/lib.rs) *)

\* What a path leads to.  "denied" is a regular file the process may not read,
\* "binary" a regular file whose bytes are not UTF-8.
Missing == [kind |-> "missing", content |-> ""]
Directory == [kind |-> "dir", content |-> ""]
RegularFile(content) == [kind |-> "file", content |-> content]
Unreadable == [kind |-> "denied", content |-> ""]
NotUtf8 == [kind |-> "binary", content |-> ""]

\* Path::is_file: the path leads to a regular file.
Path_is_file(entry) == entry.kind \in {"file", "denied", "binary"}

\* Path::file_name: the final component, unless the path is empty or ends in "..".
Path_file_name(path) ==
    IF path = <<>> \/ path[Len(path)] = ".."
    THEN None
    ELSE Some(path[Len(path)])

\* fs::read_to_string, an error being given by its description (e.to_string()).
fs_read_to_string(entry) ==
    CASE entry.kind = "file" -> Ok(entry.content)
      [] entry.kind = "missing" -> Err("No such file or directory (os error 2)")
      [] entry.kind = "dir" -> Err("Is a directory (os error 21)")
      [] entry.kind = "denied" -> Err("Permission denied (os error 13)")
      [] entry.kind = "binary" -> Err("stream did not contain valid UTF-8")

LoadError_new(details) == [details |-> details]

\* Mutant: an unreadable file reads as empty content.
File_load_contents_or_empty(entry) ==
    IF fs_read_to_string(entry).ok THEN Ok(fs_read_to_string(entry).val) ELSE Ok("")

\* Mutant: the I/O error's description is replaced by a fixed text.
File_load_contents_fixed_text(entry) ==
    IF fs_read_to_string(entry).ok
    THEN Ok(fs_read_to_string(entry).val)
    ELSE Err(LoadError_new("Unable to read file"))

File_load_contents(entry) ==
    IF fs_read_to_string(entry).ok
    THEN Ok(fs_read_to_string(entry).val)
    ELSE Err(LoadError_new(fs_read_to_string(entry).err))

\* File::load_from up to the read: Err at once, or the name to give the File.
File_load_from_check(path, entry) ==
    IF ~Path_is_file(entry)
    THEN Err(LoadError_new("File does not exist, or is a directory"))
    ELSE IF ~Path_file_name(path).some
         THEN Err(LoadError_new("Unable to parse file name"))
         ELSE Ok(Path_file_name(path).val)

\* File::load_from from the read on.
File_load_from_read(name, entry) ==
    IF File_load_contents(entry).ok
    THEN Ok([name |-> name, content |-> File_load_contents(entry).val, encoding |-> "utf8"])
    ELSE File_load_contents(entry)

File_load_content_from(self, entry) ==
    IF File_load_contents(entry).ok
    THEN Ok([self EXCEPT !.content = File_load_contents(entry).val])
    ELSE File_load_contents(entry)

PathLib == <<"src", "lib.rs">>
PathUp == <<"src", "..">>
Paths == {PathLib, PathUp}

\* What the model's filesystem may hold at a path; ".." never leads to a file.
EntriesAt(path) ==
    IF Path_file_name(path).some
    THEN {Missing, Directory, RegularFile("pub fn load_from"), RegularFile(""),
          Unreadable, NotUtf8}
    ELSE {Missing, Directory}

\* The File values load_content_from is called on.
SelfInputs == {File_default, File_new("script.sh", "ZWNobw==", "base64")}

NoLoad == [pc |-> "idle"]

LoadFree == load.pc \in {"idle", "done"}

\* File::load_from, up to and including path.is_file() and path.file_name().
load_from_check ==
    \E path \in Paths :
        /\ LoadFree
        /\ load' = IF File_load_from_check(path, disk[path]).ok
                   THEN [pc |-> "reading", op |-> "load_from", path |-> path,
                         checked |-> disk[path],
                         name |-> File_load_from_check(path, disk[path]).val]
                   ELSE [pc |-> "done", op |-> "load_from", path |-> path,
                         checked |-> disk[path], didRead |-> FALSE,
                         result |-> File_load_from_check(path, disk[path])]
        /\ UNCHANGED <<builderVars, clientVars, disk>>

\* File::load_from, the read of the contents and the return.
load_from_read ==
    /\ load.pc = "reading"
    /\ load' = [pc |-> "done", op |-> "load_from", path |-> load.path,
                checked |-> load.checked, didRead |-> TRUE, read |-> disk[load.path],
                result |-> File_load_from_read(load.name, disk[load.path])]
    /\ UNCHANGED <<builderVars, clientVars, disk>>

\* File::load_content_from, whole.
load_content_from ==
    \E self \in SelfInputs, path \in Paths :
        /\ LoadFree
        /\ load' = [pc |-> "done", op |-> "load_content_from", path |-> path,
                    self |-> self, didRead |-> TRUE, read |-> disk[path],
                    result |-> File_load_content_from(self, disk[path])]
        /\ UNCHANGED <<builderVars, clientVars, disk>>

\* Another process creates, removes or replaces what a path leads to.
fs_change ==
    \E path \in Paths : \E entry \in EntriesAt(path) :
        /\ disk' = [disk EXCEPT ![path] = entry]
        /\ UNCHANGED <<builderVars, clientVars, load>>

\* The filesystem while no file is loaded.
FsAtRest == [path \in Paths |-> IF path = PathLib THEN RegularFile("pub fn load_from") ELSE Directory]

-----------------------------------------------------------------------------
(* Specifications *)

KeyInputs == {"123abc", "abc\ndef"}

\* The executor the program submits: the one of the crate's own example.
SubmittedExecutors ==
    {<<"add_file",
       Executor_add_file(
           Executor_set_version(Executor_set_language(Executor_new, <<"R", "u", "s", "t">>),
                                "1.50.0"),
           File_set_content(File_set_name(File_default, "main.rs"), "fn main() {}"))>>}

\* A client has been constructed and an executor built; no call made yet.
Init ==
    /\ \E k \in {None} \cup {Some(s) : s \in KeyInputs} :
          /\ key = k
          /\ client = IF k.some THEN Client_with_key(k.val) ELSE Client_new
    /\ \E se \in SubmittedExecutors :
          /\ last = se[1]
          /\ executor = se[2]
    /\ calls = <<>>
    /\ wire = <<>>
    /\ disk = FsAtRest
    /\ load = NoLoad

Next ==
    \/ execute_send
    \/ \E i \in 1..MaxCalls : execute_return(i, NoResponse)
    \/ \E i \in 1..MaxCalls, s \in Statuses, b \in BodyIds :
          execute_return(i, Response(s, Bodies[b]))
    \/ fetch_runtimes_send
    \/ \E i \in 1..MaxCalls : fetch_runtimes_return(i, NoResponse)
    \/ \E i \in 1..MaxCalls, s \in Statuses, b \in BodyIds :
          fetch_runtimes_return(i, Response(s, Bodies[b]))

Spec == Init /\ [][Next]_vars

\* The builder alone: a program configuring one Executor.
InitBuilder ==
    /\ executor = Executor_new
    /\ last = "new"
    /\ key = None
    /\ client = Client_new
    /\ calls = <<>>
    /\ wire = <<>>
    /\ disk = FsAtRest
    /\ load = NoLoad

NextBuilder ==
    \/ new
    \/ default
    \/ reset
    \/ set_language
    \/ set_version
    \/ add_file
    \/ add_files
    \/ set_files
    \/ set_stdin
    \/ add_arg
    \/ add_args
    \/ set_args
    \/ set_compile_timeout
    \/ set_run_timeout
    \/ set_compile_memory_limit
    \/ set_run_memory_limit

SpecBuilder == InitBuilder /\ [][NextBuilder]_vars

\* File loading alone, on a filesystem other processes change.
InitFile ==
    /\ executor = Executor_new
    /\ last = "new"
    /\ key = None
    /\ client = Client_new
    /\ calls = <<>>
    /\ wire = <<>>
    /\ disk \in {f \in [Paths -> UNION {EntriesAt(p) : p \in Paths}] :
                 \A p \in Paths : f[p] \in EntriesAt(p)}
    /\ load = NoLoad

NextFile ==
    \/ load_from_check
    \/ load_from_read
    \/ load_content_from
    \/ fs_change

SpecFile == InitFile /\ [][NextFile]_vars

-----------------------------------------------------------------------------
(* Properties of Client::execute and of the result predicates *)

Done(i) == i \in 1..Len(calls) /\ calls[i].pc = "done"

\* Call i is an execute call that got a response (send() resolved to Ok).
ExecuteAnswered(i) == Done(i) /\ calls[i].kind = "execute" /\ calls[i].resp.sent

\* Call i is an execute call that returned Ok(response).
ExecuteOk(i) == Done(i) /\ calls[i].kind = "execute" /\ calls[i].result.ok

\* r is the degenerate response execute synthesizes for the given status and text.
IsSynthesized(r, status, text) ==
    /\ r.language = ""
    /\ r.version = ""
    /\ r.run.stdout = ""
    /\ r.run.stderr = ""
    /\ r.run.output = ""
    /\ r.run.code = 0
    /\ ~r.run.signal.some
    /\ ~r.compile.some
    /\ r.message.some
    /\ r.message.val = <<StatusDisplay(status), ": ", text>>

\* r carries what the JSON object j holds, member by member.
IsBodyOf(r, j) ==
    /\ r.language = j.v.language.v
    /\ r.version = j.v.version.v
    /\ r.run.code = j.v.run.v.code.v
    /\ r.run.stdout = j.v.run.v.stdout.v
    /\ r.run.stderr = j.v.run.v.stderr.v
    /\ r.run.output = j.v.run.v.output.v
    /\ r.run.signal.some = (Field(j.v.run.v, "signal").t = "str")
    /\ (r.run.signal.some => r.run.signal.val = j.v.run.v.signal.v)
    /\ r.compile.some = (Field(j.v, "compile").t = "obj")
    /\ (r.compile.some => r.compile.val.code = j.v.compile.v.code.v)
    /\ (r.compile.some => r.compile.val.stderr = j.v.compile.v.stderr.v)

\* C1 as stated: whenever execute gets a response whose status is not 200 it
\* returns Ok with the synthesized response (language and version empty, run
\* empty with code 0 and no signal, compile None, message "<status>: <body>"),
\* and the body is deserialized only when the status is 200.
C1_AnyNon200IsOk ==
    \A i \in 1..Len(calls) :
        ExecuteAnswered(i) /\ calls[i].resp.status # 200 =>
            /\ calls[i].result.ok
            /\ IsSynthesized(calls[i].result.val, calls[i].resp.status, calls[i].resp.body.text)

\* C1, amended: when execute gets a response whose status is not 200 and the
\* body text can be read, it returns Ok with the synthesized response; when the
\* body cannot be read it returns Err; a status of exactly 200 (and no other,
\* 201 included) has its body deserialized into the response.
C1_Non200Synthesized ==
    \A i \in 1..Len(calls) :
        ExecuteAnswered(i) =>
            LET resp == calls[i].resp
                result == calls[i].result
            IN  /\ resp.status # 200 /\ resp.body.readable =>
                    /\ result.ok
                    /\ IsSynthesized(result.val, resp.status, resp.body.text)
                /\ resp.status # 200 /\ ~resp.body.readable => ~result.ok
                /\ resp.status = 200 /\ result.ok =>
                    /\ resp.body.readable
                    /\ ExecResponse_de_ok(resp.body.json)
                    /\ IsBodyOf(result.val, resp.body.json)

\* A 201 response whose body is a well-formed execute response came back, and
\* execute returned the synthesized response with the message.
C1_Witness ==
    \E i \in 1..Len(calls) :
        /\ ExecuteAnswered(i)
        /\ calls[i].resp.status = 201
        /\ calls[i].resp.body.readable
        /\ ExecResponse_de_ok(calls[i].resp.body.json)
        /\ calls[i].result.ok
        /\ calls[i].result.val.message.some

\* C2: for every response execute returns, is_ok() holds exactly when the HTTP
\* status was 200 and is_err() exactly when it was not.
C2_IsOkIffStatus200 ==
    \A i \in 1..Len(calls) :
        ExecuteOk(i) =>
            /\ ExecResponse_is_ok(calls[i].result.val) = (calls[i].resp.status = 200)
            /\ ExecResponse_is_err(calls[i].result.val) = (calls[i].resp.status # 200)

\* The ExecResult values a returned response holds: run, and compile if present.
ResultsOf(r) == IF r.compile.some THEN <<r.run, r.compile.val>> ELSE <<r.run>>

OtherTexts == {"", "Hello, world", "Error!"}

\* C3: for every ExecResult, is_ok() is true exactly when code = 0 and is_err()
\* exactly when code # 0, whatever stdout, stderr, output and signal hold, so
\* exactly one of the two holds.
C3_ResultOkIffCodeZero ==
    \A i \in 1..Len(calls) :
        ExecuteOk(i) =>
            \A n \in 1..Len(ResultsOf(calls[i].result.val)) :
                LET r == ResultsOf(calls[i].result.val)[n]
                IN  /\ ExecResult_is_ok(r) = (r.code = 0)
                    /\ ExecResult_is_err(r) = (r.code # 0)
                    /\ ExecResult_is_ok(r) # ExecResult_is_err(r)
                    /\ \A so \in OtherTexts, se \in OtherTexts, sg \in {None, Some("SIGKILL")} :
                          LET q == [r EXCEPT !.stdout = so, !.stderr = se,
                                             !.output = so, !.signal = sg]
                          IN  /\ ExecResult_is_ok(q) = ExecResult_is_ok(r)
                              /\ ExecResult_is_err(q) = ExecResult_is_err(r)

\* A returned run result with a non-zero code and non-empty stdout, which is_err.
C3_Witness ==
    \E i \in 1..Len(calls) :
        /\ ExecuteOk(i)
        /\ calls[i].result.val.run.code # 0
        /\ calls[i].result.val.run.stdout # ""
        /\ ExecResult_is_err(calls[i].result.val.run)
        /\ ~ExecResult_is_ok(calls[i].result.val.run)

C6_OneRequestPerCall ==
    /\ Len(wire) = Len(calls)
    /\ \A i \in 1..Len(calls) :
          /\ Len(wire[i]) = 1
          /\ calls[i].kind = "execute" =>
                /\ wire[i][1].method = "POST"
                /\ wire[i][1].url = <<Client_get_url(client), "/execute">>
          /\ calls[i].kind = "fetch_runtimes" =>
                /\ wire[i][1].method = "GET"
                /\ wire[i][1].url = <<Client_get_url(client), "/runtimes">>
          /\ Done(i) /\ calls[i].kind = "execute" =>
                calls[i].result = execute_result(calls[i].resp)
          /\ Done(i) /\ calls[i].kind = "fetch_runtimes" =>
                calls[i].result = fetch_runtimes_result(calls[i].resp)

\* A call that has returned keeps its result and sends nothing more.
C6_ReturnedIsFinal ==
    \A i \in 1..Len(calls) :
        calls[i].pc = "done" => (calls'[i] = calls[i] /\ wire'[i] = wire[i])

\* C6: every call of execute and of fetch_runtimes puts exactly one request on
\* the network (POST {url}/execute, GET {url}/runtimes) and returns exactly one
\* result, derived from the response to that request; a call that returns Err
\* has sent no second request, and a call that has returned never changes its
\* result or sends again.
C6_SingleRoundTrip == [](C6_OneRequestPerCall) /\ [][C6_ReturnedIsFinal]_vars

\* A call returned Err after one request, and a later call returned Ok.
C6_Witness ==
    \E i \in 1..Len(calls), j \in 1..Len(calls) :
        /\ i < j
        /\ Done(i)
        /\ ~calls[i].result.ok
        /\ Len(wire[i]) = 1
        /\ Done(j)
        /\ calls[j].result.ok

\* C7: a client constructed without a key (Client::new, Client::default) has
\* the headers Accept = "application/json" and User-Agent = "piston-rs" and no
\* Authorization; one constructed with Client::with_key(k) has those two plus
\* Authorization = k; both have the url "https://emkc.org/api/v2/piston".
C7_ConstructedHeaders ==
    /\ ~key.some =>
          /\ client.ok
          /\ Client_default = client
          /\ DOMAIN Client_get_headers(client) = {"Accept", "User-Agent"}
    /\ key.some /\ client.ok =>
          /\ DOMAIN Client_get_headers(client) = {"Accept", "User-Agent", "Authorization"}
          /\ Client_get_headers(client)["Authorization"] = key.val
    /\ client.ok =>
          /\ Client_get_headers(client)["Accept"] = "application/json"
          /\ Client_get_headers(client)["User-Agent"] = "piston-rs"
          /\ Client_get_url(client) = "https://emkc.org/api/v2/piston"

\* A client built with the key "123abc" is in use.
C7_Witness ==
    /\ key = Some("123abc")
    /\ client.ok
    /\ Client_get_headers(client)["Authorization"] = "123abc"
    /\ Len(calls) > 0

\* Call i is a fetch_runtimes call that returned Ok(runtimes).
FetchOk(i) == Done(i) /\ calls[i].kind = "fetch_runtimes" /\ calls[i].result.ok

\* The runtime r is what the JSON object j holds.
IsRuntimeOf(r, j) ==
    /\ j.t = "obj"
    /\ r.language = j.v.language.v
    /\ r.version = j.v.version.v
    /\ Len(r.aliases) = Len(j.v.aliases.v)
    /\ \A n \in 1..Len(r.aliases) : r.aliases[n] = j.v.aliases.v[n].v

\* C14: the sequence a successful fetch_runtimes call yields is exactly the
\* sequence in that call's response, as long and in the same order, whatever
\* earlier fetches yielded: nothing is carried over or accumulated.
C14_FetchYieldsOwnResponse ==
    \A i \in 1..Len(calls) :
        FetchOk(i) =>
            /\ calls[i].resp.sent
            /\ calls[i].resp.body.readable
            /\ calls[i].resp.body.json.t = "arr"
            /\ Len(calls[i].result.val) = Len(calls[i].resp.body.json.v)
            /\ \A n \in 1..Len(calls[i].result.val) :
                  IsRuntimeOf(calls[i].result.val[n], calls[i].resp.body.json.v[n])

\* Two fetches succeeded, the later one with a shorter catalog than the earlier.
C14_Witness ==
    /\ Len(calls) >= 2
    /\ FetchOk(1)
    /\ FetchOk(2)
    /\ Len(calls[1].result.val) = 2
    /\ Len(calls[2].result.val) = 1
    /\ calls[2].result.val[1].language = "python"

\* Every execute request sent carries the serialization of the executor as it is.
C15_SameSerialization ==
    \A i \in 1..Len(calls) :
        calls[i].kind = "execute" =>
            \A n \in 1..Len(wire[i]) : wire[i][n].body = Some(Executor_to_json(executor))

\* A step changes neither the executor nor the client.
C15_StepKeepsArguments == executor' = executor /\ client' = client

\* C15: no step of execute or fetch_runtimes, whatever the call returns,
\* changes a field of the executor or the client's url or headers; every
\* execute call serializes the same executor with identical content.
C15_CallsChangeNothing == [](C15_SameSerialization) /\ [][C15_StepKeepsArguments]_vars

\* The executor was submitted twice with the same serialization; one call
\* returned Err, the other the synthesized response.
C15_Witness ==
    /\ Len(calls) >= 2
    /\ ExecuteAnswered(2)
    /\ calls[2].result.ok
    /\ calls[2].result.val.message.some
    /\ Done(1)
    /\ calls[1].kind = "execute"
    /\ ~calls[1].result.ok
    /\ wire[1][1].body = wire[2][1].body
    /\ wire[2][1].body = Some(Executor_to_json(executor))

\* C18: with calls in flight together and responses arriving in any order,
\* each call's result is derived from the response to its own request, every
\* request carries the headers the client was constructed with (Authorization
\* exactly when it was built with a key), and the client is as constructed.
C18_SharedClientCalls ==
    /\ client = (IF key.some THEN Client_with_key(key.val) ELSE Client_new)
    /\ \A i \in 1..Len(calls) :
          /\ \A n \in 1..Len(wire[i]) :
                /\ \A h \in DOMAIN client.headers :
                      /\ h \in DOMAIN wire[i][n].headers
                      /\ wire[i][n].headers[h] = client.headers[h]
                /\ "Authorization" \in DOMAIN wire[i][n].headers <=> key.some
                /\ key.some => wire[i][n].headers["Authorization"] = key.val
          /\ Done(i) =>
                calls[i].result = (IF calls[i].kind = "execute"
                                   THEN execute_result(calls[i].resp)
                                   ELSE fetch_runtimes_result(calls[i].resp))

\* On a client built with a key, the second call has returned while the first,
\* sent before it, still awaits its response.
C18_Witness ==
    /\ key.some
    /\ Len(calls) = 2
    /\ Awaiting(1)
    /\ Done(2)
    /\ calls[1].kind # calls[2].kind
    /\ "Authorization" \in DOMAIN wire[1][1].headers

-----------------------------------------------------------------------------
(* Properties of the Executor builder *)

\* C8: Executor::new() and Executor::default() return language "", version "*",
\* no files, stdin "", no args, compile_timeout 10000, run_timeout 3000 and both
\* memory limits -1.
C8_NewDefaults ==
    last \in {"new", "default"} =>
        /\ executor.language = <<>>
        /\ executor.version = "*"
        /\ executor.files = <<>>
        /\ executor.stdin = ""
        /\ executor.args = <<>>
        /\ executor.compile_timeout = 10000
        /\ executor.run_timeout = 3000
        /\ executor.compile_memory_limit = -1
        /\ executor.run_memory_limit = -1

\* Executor::default() has just been called.
C8_Witness == last = "default" /\ executor.version = "*" /\ executor.run_timeout = 3000

\* Every field of e differs from its default.
AllFieldsSet(e) ==
    /\ e.language # <<>>
    /\ e.version # "*"
    /\ e.files # <<>>
    /\ e.stdin # ""
    /\ e.args # <<>>
    /\ e.compile_timeout # 10000
    /\ e.run_timeout # 3000
    /\ e.compile_memory_limit # -1
    /\ e.run_memory_limit # -1

\* C9: after any sequence of builder operations, reset() leaves every field of
\* the executor equal to the corresponding field of Executor::new().
C9_ResetRestoresNew ==
    /\ Executor_reset(executor) = Executor_new
    /\ last = "reset" => executor = Executor_new

\* An executor with all nine fields set, on which reset() yields a new one.
C9_Witness == AllFieldsSet(executor) /\ Executor_reset(executor) = Executor_new

\* s is a prefix of t.
IsPrefix(s, t) == Len(s) <= Len(t) /\ \A i \in 1..Len(s) : t[i] = s[i]

\* On the executor held, add_file / add_files yield the files held followed by
\* the new ones.
C10_AddAppends ==
    /\ \A f \in FileInputs :
          LET after == Executor_add_file(executor, f).files
          IN  /\ after = executor.files \o <<f>>
              /\ IsPrefix(executor.files, after)
    /\ \A fs \in SeqsUpTo(FileInputs, MaxBatch) :
          LET after == Executor_add_files(executor, fs).files
          IN  /\ after = executor.files \o fs
              /\ IsPrefix(executor.files, after)

\* Every add_file / add_files step keeps the files held as a prefix.
C10_AddStep ==
    /\ last' = "add_file" /\ executor' # executor =>
          /\ Len(executor'.files) = Len(executor.files) + 1
          /\ IsPrefix(executor.files, executor'.files)
          /\ executor'.files[Len(executor'.files)] \in FileInputs
    /\ last' = "add_files" /\ executor' # executor =>
          /\ IsPrefix(executor.files, executor'.files)
          /\ \E fs \in SeqsUpTo(FileInputs, MaxBatch) : executor'.files = executor.files \o fs

\* C10: add_file and add_files never discard or reorder files already held:
\* add_file(f) on files F gives F followed by f, add_files(G) gives F followed
\* by G in G's order; so the files are the added files in insertion order and
\* files[0] stays the first file added.
C10_AddFilesKeepsOrder == [](C10_AddAppends) /\ [][C10_AddStep]_vars

\* Two different files were added one after the other and are held in that order.
C10_Witness ==
    /\ last = "add_file"
    /\ Len(executor.files) = 2
    /\ executor.files[1] = File_default
    /\ executor.files[2] # File_default

\* C11: set_files(G) discards every file held: whatever the executor holds,
\* after set_files(G) its files are exactly G in G's order and no other field
\* has changed.
C11_SetFilesReplaces ==
    /\ \A G \in SeqsUpTo(FileInputs, MaxBatch) :
          /\ Executor_set_files(executor, G).files = G
          /\ \A k \in (DOMAIN executor) \ {"files"} :
                Executor_set_files(executor, G)[k] = executor[k]
          /\ DOMAIN Executor_set_files(executor, G) = DOMAIN executor
    /\ last = "set_files" => executor.files \in SeqsUpTo(FileInputs, MaxBatch)

\* set_files has put two files in an order no add_file chain from the first
\* one gives, next to args that were there before.
C11_Witness ==
    /\ last = "set_files"
    /\ Len(executor.files) = 2
    /\ executor.files[2] = File_default
    /\ executor.files[1] # File_default

\* The characters of the language inputs that are upper-case letters
\* (char::is_uppercase).
UppercaseLetters == {"R", "C", "U+0130", "U+1D400"}

\* C12 as stated: the language field never contains an upper-case letter.
C12_NeverUppercase ==
    \A i \in 1..Len(executor.language) : executor.language[i] \notin UppercaseLetters

\* C12: set_language(s) stores the lower-cased form of s ("Rust" is stored as
\* "rust"); the language field never holds a character that has a different
\* lower-case form, and set_language applied to the stored language leaves the
\* executor unchanged.
C12_LanguageLowercased ==
    /\ Executor_set_language(executor, <<"R", "u", "s", "t">>).language = <<"r", "u", "s", "t">>
    /\ Executor_set_language(executor, <<"C">>).language = <<"c">>
    /\ Executor_set_language(executor, <<"U+0130">>).language = <<"i", "U+0307">>
    /\ \A i \in 1..Len(executor.language) :
          LowerChar(executor.language[i]) = <<executor.language[i]>>
    /\ Executor_set_language(executor, executor.language) = executor

\* set_language has stored a language whose input form was longer or shorter
\* than what is stored.
C12_Witness ==
    /\ last = "set_language"
    /\ executor.language = <<"i", "U+0307">>

\* a and b are equal in every field but the given one.
SameBut(a, b, field) ==
    /\ DOMAIN a = DOMAIN b
    /\ \A k \in (DOMAIN a) \ {field} : a[k] = b[k]

\* The values every numeric setter is tried with.
NumericProbe == {-100, -1, 0, 1, 5000}

\* C16: each setter changes its own field and leaves the other eight as they
\* were; the numeric setters store the value given, zero and negative values
\* included.
C16_SettersChangeOneField ==
    /\ \A s \in LanguageInputs : SameBut(Executor_set_language(executor, s), executor, "language")
    /\ \A v \in VersionInputs :
          /\ SameBut(Executor_set_version(executor, v), executor, "version")
          /\ Executor_set_version(executor, v).version = v
    /\ \A f \in FileInputs : SameBut(Executor_add_file(executor, f), executor, "files")
    /\ \A G \in SeqsUpTo(FileInputs, MaxBatch) :
          /\ SameBut(Executor_add_files(executor, G), executor, "files")
          /\ SameBut(Executor_set_files(executor, G), executor, "files")
    /\ \A s \in StdinInputs :
          /\ SameBut(Executor_set_stdin(executor, s), executor, "stdin")
          /\ Executor_set_stdin(executor, s).stdin = s
    /\ \A a \in ArgInputs : SameBut(Executor_add_arg(executor, a), executor, "args")
    /\ \A A \in SeqsUpTo(ArgInputs, MaxBatch) :
          /\ SameBut(Executor_add_args(executor, A), executor, "args")
          /\ SameBut(Executor_set_args(executor, A), executor, "args")
    /\ \A n \in NumericProbe :
          /\ SameBut(Executor_set_compile_timeout(executor, n), executor, "compile_timeout")
          /\ Executor_set_compile_timeout(executor, n).compile_timeout = n
          /\ SameBut(Executor_set_run_timeout(executor, n), executor, "run_timeout")
          /\ Executor_set_run_timeout(executor, n).run_timeout = n
          /\ SameBut(Executor_set_compile_memory_limit(executor, n), executor, "compile_memory_limit")
          /\ Executor_set_compile_memory_limit(executor, n).compile_memory_limit = n
          /\ SameBut(Executor_set_run_memory_limit(executor, n), executor, "run_memory_limit")
          /\ Executor_set_run_memory_limit(executor, n).run_memory_limit = n

\* A setter has stored a negative limit in an executor whose other fields,
\* a zero run timeout among them, were set before.
C16_Witness ==
    /\ last = "set_run_memory_limit"
    /\ executor.run_memory_limit = -2
    /\ executor.run_timeout = 0
    /\ executor.language = <<"r", "u", "s", "t">>
    /\ executor.files # <<>>

\* C17: add_arg and add_args yield the args held followed by the new ones in
\* the order given; set_args(A) yields exactly A whatever was held.
C17_ArgsAppendOrReplace ==
    /\ \A a \in ArgInputs :
          /\ Executor_add_arg(executor, a).args = executor.args \o <<a>>
          /\ IsPrefix(executor.args, Executor_add_arg(executor, a).args)
    /\ \A A \in SeqsUpTo(ArgInputs, MaxBatch) :
          /\ Executor_add_args(executor, A).args = executor.args \o A
          /\ IsPrefix(executor.args, Executor_add_args(executor, A).args)
          /\ Executor_set_args(executor, A).args = A
    /\ last = "set_args" => executor.args \in SeqsUpTo(ArgInputs, MaxBatch)

\* add_arg has put "--verbose" behind "-S", which was held before.
C17_Witness ==
    /\ last = "add_arg"
    /\ executor.args = <<"-S", "--verbose">>

\* A call of load_from / load_content_from has returned.
Loaded == load.pc = "done"

\* C13: load_from and load_content_from on a path that does not exist return
\* Err with non-empty details, and so does load_from on a directory; Ok is
\* returned only with the content of a regular file that was read, never with
\* empty content standing in for a file that could not be read.
C13_MissingPathIsErr ==
    Loaded =>
        /\ load.op = "load_from" /\ load.checked.kind \in {"missing", "dir"} =>
              ~load.result.ok /\ load.result.err.details # ""
        /\ load.didRead /\ load.read.kind \in {"missing", "dir"} =>
              ~load.result.ok /\ load.result.err.details # ""
        /\ load.result.ok =>
              /\ load.didRead
              /\ load.read.kind = "file"
              /\ load.result.val.content = load.read.content

\* load_content_from has returned Err for a path that does not exist.
C13_Witness ==
    /\ Loaded
    /\ load.op = "load_content_from"
    /\ load.read.kind = "missing"
    /\ ~load.result.ok
    /\ load.result.err.details # ""

\* The descriptions of the I/O errors a read reports.
IoDescriptions == {fs_read_to_string(entry).err : entry \in {Missing, Directory, Unreadable, NotUtf8}}

====
